---------------------------- MODULE Spec2Model ----------------------------
(***************************************************************************)
(* Model of src/src/aabb.rs: the axis-aligned bounding box (AABB) of the   *)
(* bvh crate, its box algebra (empty, contains, join, grow, join_bounded,  *)
(* size, center, surface_area, largest_axis) and its ray tests            *)
(* (does_intersect, intersection).                                         *)
(*                                                                         *)
(* Every coordinate of the source is an f32.  The model keeps the IEEE-754 *)
(* binary floating point semantics and scales the format down: a float has *)
(* Precision significand bits (f32: 24) and a largest exponent MaxExp      *)
(* (f32: 127), with gradual underflow, round-to-nearest-even, overflow to  *)
(* an infinity, and NaN.  A finite float is held as an integer number of   *)
(* quanta, one quantum being the smallest subnormal; the value 1.0 is One  *)
(* quanta.  The infinities are held as the integers just beyond the        *)
(* largest finite float, so that the integer order is the float order, and *)
(* NaN as the integer after them (every comparison tests for it first).    *)
(* The sign of a zero is not kept: no operation of aabb.rs tells +0.0 from *)
(* -0.0 except a division by zero, which then yields the infinity of the   *)
(* dividend's sign.                                                        *)
(***************************************************************************)
EXTENDS Integers, Sequences, FiniteSets, TLC

\* Significand bits of the scaled-down float format (f32: 24).
Precision == 3
\* Largest exponent of the scaled-down float format (f32: 127).
MaxExp == 4
\* Longest sequence of points folded into one AABB.
MaxPts == 2

VARIABLES
    self,   \* the AABB an operation is called on
    other,  \* a second AABB (the argument of join)
    pts,    \* the points folded into self so far, in order
    opts,   \* the points folded into other so far, in order
    p,      \* a point argument
    ray,    \* a ray argument
    ret     \* the last call: [op |-> its name, val |-> what it returned]

vars == <<self, other, pts, opts, p, ray, ret>>

---------------------------------------------------------------------------
(* f32 *)

RECURSIVE Pow2(_)
Pow2(n) == IF n = 0 THEN 1 ELSE 2 * Pow2(n - 1)

\* 1.0 in quanta: the smallest subnormal is 2^(1 - MaxExp - (Precision - 1)).
One == Pow2(MaxExp + Precision - 2)

\* f32::MAX in quanta: (2^Precision - 1) * 2^(MaxExp - Precision + 1).
MaxFinite == (Pow2(Precision) - 1) * Pow2(2 * MaxExp - 1)

\* f32::INFINITY, f32::NEG_INFINITY, f32::NAN.
PInf == MaxFinite + 1
NInf == -PInf
NaN == MaxFinite + 2

IsNaN(x) == x = NaN
IsInf(x) == x = PInf \/ x = NInf
IsFinite(x) == ~IsNaN(x) /\ ~IsInf(x)

Abs(x) == IF x < 0 THEN -x ELSE x

\* The spacing of the floats around a magnitude of m quanta.
RECURSIVE Ulp(_)
Ulp(m) == IF m < Pow2(Precision) THEN 1 ELSE 2 * Ulp(m \div 2)

\* The rational n/d quanta (n >= 0, d > 0) rounded to the nearest float
\* magnitude, ties to the even significand.
RoundMag(n, d) ==
    LET u == Ulp(n \div d)
        q == n \div (d * u)
        r == n - q * d * u
        up == 2 * r > d * u \/ (2 * r = d * u /\ q % 2 = 1)
    IN  (IF up THEN q + 1 ELSE q) * u

\* The rational n/d quanta (d > 0) as an f32: rounded, an infinity on overflow.
Round(n, d) ==
    LET m == RoundMag(Abs(n), d)
        v == IF m > MaxFinite THEN PInf ELSE m
    IN  IF n < 0 THEN -v ELSE v

\* The finite floats, and all the floats.
FiniteFloats == {x \in (-MaxFinite)..MaxFinite : RoundMag(Abs(x), 1) = Abs(x)}
Floats == FiniteFloats \cup {PInf, NInf, NaN}

FNeg(x) == IF IsNaN(x) THEN NaN ELSE -x

FAdd(x, y) ==
    IF IsNaN(x) \/ IsNaN(y) THEN NaN
    ELSE IF IsInf(x) THEN (IF IsInf(y) /\ y # x THEN NaN ELSE x)
    ELSE IF IsInf(y) THEN y
    ELSE Round(x + y, 1)

FSub(x, y) == FAdd(x, FNeg(y))

FMul(x, y) ==
    IF IsNaN(x) \/ IsNaN(y) THEN NaN
    ELSE IF IsInf(x) \/ IsInf(y)
         THEN (IF x = 0 \/ y = 0 THEN NaN
               ELSE IF (x < 0) = (y < 0) THEN PInf ELSE NInf)
    ELSE Round(x * y, One)

FDiv(x, y) ==
    IF IsNaN(x) \/ IsNaN(y) THEN NaN
    ELSE IF IsInf(x) THEN (IF IsInf(y) THEN NaN
                           ELSE IF (x < 0) = (y < 0) THEN PInf ELSE NInf)
    ELSE IF IsInf(y) THEN 0
    ELSE IF y = 0 THEN (IF x = 0 THEN NaN ELSE IF x < 0 THEN NInf ELSE PInf)
    ELSE IF y < 0 THEN Round(-(x * One), -y)
    ELSE Round(x * One, y)

\* The comparisons of f32: false as soon as an operand is NaN.
FLt(x, y) == ~IsNaN(x) /\ ~IsNaN(y) /\ x < y
FLe(x, y) == ~IsNaN(x) /\ ~IsNaN(y) /\ x <= y
FGt(x, y) == FLt(y, x)
FGe(x, y) == FLe(y, x)

\* f32::min and f32::max: a NaN operand is dropped, the other one returned.
f32_min(x, y) == IF IsNaN(x) THEN y ELSE IF IsNaN(y) THEN x
                 ELSE IF x < y THEN x ELSE y
f32_max(x, y) == IF IsNaN(x) THEN y ELSE IF IsNaN(y) THEN x
                 ELSE IF x > y THEN x ELSE y

---------------------------------------------------------------------------
(* Point3<f32>, Vector3<f32>, Axis *)

Point3(x, y, z) == <<x, y, z>>
Axes == {1, 2, 3}
AxisX == 1
AxisY == 2
AxisZ == 3


---------------------------------------------------------------------------
(* AABB *)

with_bounds(min, max) == [min |-> min, max |-> max]

\* empty() with the bounds the wrong way round: the box of everything.
empty_swapped == [min |-> Point3(NInf, NInf, NInf), max |-> Point3(PInf, PInf, PInf)]

empty == [min |-> Point3(PInf, PInf, PInf), max |-> Point3(NInf, NInf, NInf)]

default == empty

contains(aabb, q) ==
    /\ FGe(q[1], aabb.min[1]) /\ FLe(q[1], aabb.max[1])
    /\ FGe(q[2], aabb.min[2]) /\ FLe(q[2], aabb.max[2])
    /\ FGe(q[3], aabb.min[3]) /\ FLe(q[3], aabb.max[3])

\* join with the x of the max corner taken against the wrong axis of b.
join_wrong_axis(aabb, b) ==
    with_bounds(Point3(f32_min(aabb.min[1], b.min[1]),
                       f32_min(aabb.min[2], b.min[2]),
                       f32_min(aabb.min[3], b.min[3])),
                Point3(f32_max(aabb.max[1], b.max[2]),
                       f32_max(aabb.max[2], b.max[2]),
                       f32_max(aabb.max[3], b.max[3])))

\* join with the max corner of the argument forgotten.
join_drops_other_max(aabb, b) ==
    with_bounds(Point3(f32_min(aabb.min[1], b.min[1]),
                       f32_min(aabb.min[2], b.min[2]),
                       f32_min(aabb.min[3], b.min[3])),
                aabb.max)

\* join that keeps the min corner of self.
join_keeps_self_min(aabb, b) ==
    with_bounds(aabb.min,
                Point3(f32_max(aabb.max[1], b.max[1]),
                       f32_max(aabb.max[2], b.max[2]),
                       f32_max(aabb.max[3], b.max[3])))

join(aabb, b) ==
    with_bounds(Point3(f32_min(aabb.min[1], b.min[1]),
                       f32_min(aabb.min[2], b.min[2]),
                       f32_min(aabb.min[3], b.min[3])),
                Point3(f32_max(aabb.max[1], b.max[1]),
                       f32_max(aabb.max[2], b.max[2]),
                       f32_max(aabb.max[3], b.max[3])))

\* grow that moves the max corner only.
grow_keeps_min(aabb, q) ==
    with_bounds(aabb.min,
                Point3(f32_max(aabb.max[1], q[1]),
                       f32_max(aabb.max[2], q[2]),
                       f32_max(aabb.max[3], q[3])))

\* grow with f32::min copied into the z of the max corner.
grow_min_in_max(aabb, q) ==
    with_bounds(Point3(f32_min(aabb.min[1], q[1]),
                       f32_min(aabb.min[2], q[2]),
                       f32_min(aabb.min[3], q[3])),
                Point3(f32_max(aabb.max[1], q[1]),
                       f32_max(aabb.max[2], q[2]),
                       f32_min(aabb.max[3], q[3])))

grow(aabb, q) ==
    with_bounds(Point3(f32_min(aabb.min[1], q[1]),
                       f32_min(aabb.min[2], q[2]),
                       f32_min(aabb.min[3], q[3])),
                Point3(f32_max(aabb.max[1], q[1]),
                       f32_max(aabb.max[2], q[2]),
                       f32_max(aabb.max[3], q[3])))

\* Bounded for Point3<f32>: the box of a point is the point itself, twice.
point_aabb(q) == with_bounds(q, q)

\* join_bounded with a Point3<f32> as the Bounded argument.
join_bounded(aabb, q) == join(aabb, point_aabb(q))

size(aabb) ==
    <<FSub(aabb.max[1], aabb.min[1]),
      FSub(aabb.max[2], aabb.min[2]),
      FSub(aabb.max[3], aabb.min[3])>>

center(aabb) ==
    LET sz == size(aabb)
        two == 2 * One
    IN  Point3(FAdd(aabb.min[1], FDiv(sz[1], two)),
               FAdd(aabb.min[2], FDiv(sz[2], two)),
               FAdd(aabb.min[3], FDiv(sz[3], two)))

surface_area(aabb) ==
    LET sz == size(aabb)
    IN  FMul(2 * One,
             FAdd(FAdd(FMul(sz[1], sz[2]), FMul(sz[1], sz[3])),
                  FMul(sz[2], sz[3])))

\* largest_axis with the comparison of x against z forgotten.
largest_axis_skips_z(aabb) ==
    LET sz == size(aabb)
    IN  IF FGt(sz[1], sz[2]) THEN AxisX
        ELSE IF FGt(sz[2], sz[3]) THEN AxisY
        ELSE AxisZ

\* largest_axis comparing with >= where the source compares with >.
largest_axis_ge(aabb) ==
    LET sz == size(aabb)
    IN  IF FGe(sz[1], sz[2]) /\ FGe(sz[1], sz[3]) THEN AxisX
        ELSE IF FGe(sz[2], sz[3]) THEN AxisY
        ELSE AxisZ

largest_axis(aabb) ==
    LET sz == size(aabb)
    IN  IF FGt(sz[1], sz[2]) /\ FGt(sz[1], sz[3]) THEN AxisX
        ELSE IF FGt(sz[2], sz[3]) THEN AxisY
        ELSE AxisZ

\* Index<usize> for AABB: aabb[0] is min, every other index is max.
index(aabb, i) == IF i = 0 THEN aabb.min ELSE aabb.max

---------------------------------------------------------------------------
(* The fold of the tests: two AABBs are grown from empty(), point by       *)
(* point, and then joined or measured (test_join_two_aabbs,                *)
(* test_surface_always_positive).                                          *)

Origin == Point3(0, 0, 0)
NoRay == [origin |-> Origin, direction |-> Origin]
Call(op, val) == [op |-> op, val |-> val]

\* The points the fold draws from: ordinary ones, the two ends of the
\* finite range, an infinite one and one with a NaN coordinate.
FoldPoints ==
    { Point3(0, 0, 0),
      Point3(One, -One, 2 * One),
      Point3(-MaxFinite, 0, One),
      Point3(MaxFinite, One, One),
      Point3(PInf, 0, -One),
      Point3(NaN, One, 0) }

Init ==
    /\ self = empty
    /\ other = empty
    /\ pts = <<>>
    /\ opts = <<>>
    /\ p = Origin
    /\ ray = NoRay
    /\ ret = Call("empty", empty)

\* aabb1 = aabb1.grow(&point)
Grow(q) ==
    /\ Len(pts) < MaxPts
    /\ self' = grow(self, q)
    /\ pts' = Append(pts, q)
    /\ ret' = Call("grow", self')
    /\ UNCHANGED <<other, opts, p, ray>>

\* aabb2 = aabb2.grow(&point)
GrowOther(q) ==
    /\ Len(opts) < MaxPts
    /\ other' = grow(other, q)
    /\ opts' = Append(opts, q)
    /\ ret' = Call("grow_other", other')
    /\ UNCHANGED <<self, pts, p, ray>>

\* aabbu = aabb1.join(&aabb2)
Join ==
    /\ ret' = Call("join", join(self, other))
    /\ UNCHANGED <<self, other, pts, opts, p, ray>>

\* aabb1.surface_area()
SurfaceArea ==
    /\ ret' = Call("surface_area", surface_area(self))
    /\ UNCHANGED <<self, other, pts, opts, p, ray>>

Next ==
    \/ \E q \in FoldPoints : Grow(q)
    \/ \E q \in FoldPoints : GrowOther(q)
    \/ Join
    \/ SurfaceArea

Spec == Init /\ [][Next]_vars


---------------------------------------------------------------------------
(* Claims on the fold *)

HasNaN(q) == IsNaN(q[1]) \/ IsNaN(q[2]) \/ IsNaN(q[3])
PointIsFinite(q) == IsFinite(q[1]) /\ IsFinite(q[2]) /\ IsFinite(q[3])
Range(s) == {s[i] : i \in 1..Len(s)}

\* C3 as stated: each folded AABB contains every point of its own sequence,
\* and the join of the two contains every point of both sequences.
C3_AsStated ==
    /\ \A q \in Range(pts) : contains(self, q)
    /\ \A q \in Range(opts) : contains(other, q)
    /\ ret.op = "join" => \A q \in Range(pts) \cup Range(opts) : contains(ret.val, q)

\* C3, amended: each folded AABB contains every point of its own sequence
\* that has no NaN coordinate, and the join of the two contains every point
\* of both sequences that has no NaN coordinate.
C3_FoldAndJoinContainPoints ==
    /\ \A q \in Range(pts) : ~HasNaN(q) => contains(self, q)
    /\ \A q \in Range(opts) : ~HasNaN(q) => contains(other, q)
    /\ ret.op = "join" =>
          \A q \in Range(pts) \cup Range(opts) : ~HasNaN(q) => contains(ret.val, q)

\* Two full sequences of NaN-free points, sharing no point, have been joined,
\* and the join is neither of its operands.
C3_Witness ==
    /\ ret.op = "join"
    /\ Len(pts) = MaxPts /\ Len(opts) = MaxPts
    /\ \A q \in Range(pts) \cup Range(opts) : ~HasNaN(q)
    /\ Range(pts) \cap Range(opts) = {}
    /\ ret.val # self /\ ret.val # other

\* C9 as stated, on points of finite coordinates: the surface area of an
\* AABB grown from empty() by one or more points is >= 0.
C9_SurfaceAreaNonNegative ==
    (/\ ret.op = "surface_area"
     /\ Len(pts) >= 1
     /\ \A q \in Range(pts) : PointIsFinite(q))
    => FGe(ret.val, 0)

---------------------------------------------------------------------------
(* test_aabb_contains_center: AABB::empty().grow(&p1).join_bounded(&p2),   *)
(* then aabb.contains(&aabb.center()).                                     *)

CenterCoords == {-MaxFinite, -One, 0, One, MaxFinite}
CenterPoints == {Point3(x, y, z) : x \in CenterCoords, y \in CenterCoords, z \in CenterCoords}

\* AABB::empty().grow(&p1)
GrowFirst(q) ==
    /\ pts = <<>>
    /\ self' = grow(self, q)
    /\ pts' = <<q>>
    /\ ret' = Call("grow", self')
    /\ UNCHANGED <<other, opts, p, ray>>

\* .join_bounded(&p2)
JoinBounded(q) ==
    /\ Len(pts) = 1
    /\ self' = join_bounded(self, q)
    /\ pts' = Append(pts, q)
    /\ ret' = Call("join_bounded", self')
    /\ UNCHANGED <<other, opts, p, ray>>

\* aabb.center()
Center ==
    /\ ret.op = "join_bounded"
    /\ p' = center(self)
    /\ ret' = Call("center", p')
    /\ UNCHANGED <<self, other, pts, opts, ray>>

\* aabb.contains(&aabb.center())
ContainsCenter ==
    /\ ret.op = "center"
    /\ ret' = Call("contains", contains(self, p))
    /\ UNCHANGED <<self, other, pts, opts, p, ray>>

NextCenter ==
    \/ \E q \in CenterPoints : GrowFirst(q)
    \/ \E q \in CenterPoints : JoinBounded(q)
    \/ Center
    \/ ContainsCenter

SpecCenter == Init /\ [][NextCenter]_vars

\* C10 as stated, on points of finite coordinates: the AABB
\* empty().grow(p1).join_bounded(p2) contains the point its center() returns.
C10_ContainsCenter ==
    ret.op = "contains" => ret.val = TRUE

---------------------------------------------------------------------------
(* The box algebra called on AABBs made by with_bounds (any two corners,   *)
(* well-formed or not), on empty() and on default().                       *)

\* Corners for with_bounds: three ordered ones, a larger one, one with an
\* infinite coordinate of each sign and one with a NaN coordinate.
CornerPoints ==
    { Point3(-One, -One, -One),
      Point3(0, 0, 0),
      Point3(One, 2 * One, One),
      Point3(2 * One, 2 * One, MaxFinite),
      Point3(PInf, 0, NInf),
      Point3(NaN, 0, One) }

SampleBoxes ==
    {with_bounds(lo, hi) : lo \in CornerPoints, hi \in CornerPoints}
        \cup {empty, default}

\* Points with one coordinate ranging over every f32 and the other two over
\* the zero, the infinities and NaN.
EdgeCoords == {NInf, 0, PInf, NaN}
WidePoints ==
    {Point3(x, y, z) : x \in Floats, y \in EdgeCoords, z \in EdgeCoords}
        \cup {Point3(x, y, z) : x \in EdgeCoords, y \in Floats, z \in EdgeCoords}
        \cup {Point3(x, y, z) : x \in EdgeCoords, y \in EdgeCoords, z \in Floats}

InitBox ==
    /\ \/ /\ self \in SampleBoxes
          /\ other \in SampleBoxes
          /\ p \in CornerPoints
       \/ /\ self \in {empty, default}
          /\ other = empty
          /\ p \in WidePoints
    /\ pts = <<>>
    /\ opts = <<>>
    /\ ray = NoRay
    /\ ret = Call("with_bounds", self)

\* self.contains(&p)
CallContains ==
    /\ ret' = Call("contains", contains(self, p))
    /\ UNCHANGED <<self, other, pts, opts, p, ray>>

\* self.join(&other)
CallJoin ==
    /\ ret' = Call("join", join(self, other))
    /\ UNCHANGED <<self, other, pts, opts, p, ray>>

\* self.grow(&p)
CallGrow ==
    /\ ret' = Call("grow", grow(self, p))
    /\ UNCHANGED <<self, other, pts, opts, p, ray>>

NextBox ==
    \/ CallContains
    \/ CallJoin
    \/ CallGrow

SpecBox == InitBox /\ [][NextBox]_vars

\* No coordinate of the AABB is NaN.
BoxHasNaN(aabb) == HasNaN(aabb.min) \/ HasNaN(aabb.max)

\* min <= max on every axis.
WellFormed(aabb) ==
    /\ FLe(aabb.min[1], aabb.max[1])
    /\ FLe(aabb.min[2], aabb.max[2])
    /\ FLe(aabb.min[3], aabb.max[3])

\* C1: the AABB of empty(), and of default(), contains no point.
C1_EmptyContainsNothing ==
    (ret.op = "contains" /\ (self = empty \/ self = default)) => ret.val = FALSE

\* contains has been asked of empty() for a point of three infinite
\* coordinates, for a point with NaN and for a finite point.
C1_Witness ==
    /\ ret.op = "contains"
    /\ self = empty
    /\ ret.val = FALSE
    /\ p \in {Point3(PInf, PInf, PInf), Point3(NInf, NInf, NInf),
              Point3(0, NaN, 0), Point3(One, 0, 0)}

\* C2 as stated: for every AABB a, empty().join(a) and a.join(empty()) have
\* exactly the min and max corners of a.
C2_AsStated ==
    /\ (ret.op = "join" /\ other = empty) => ret.val = self
    /\ (ret.op = "join" /\ self = empty) => ret.val = other

\* C2, amended: for every AABB a none of whose coordinates is NaN,
\* empty().join(a) and a.join(empty()) have exactly the corners of a.
C2_EmptyIsJoinIdentity ==
    /\ (ret.op = "join" /\ other = empty /\ ~BoxHasNaN(self)) => ret.val = self
    /\ (ret.op = "join" /\ self = empty /\ ~BoxHasNaN(other)) => ret.val = other

\* A NaN-free AABB other than empty(), with an infinite coordinate or not,
\* has been joined with empty().
C2_Witness ==
    /\ ret.op = "join"
    /\ other = empty
    /\ self # empty
    /\ ~BoxHasNaN(self)
    /\ ret.val = self

\* c contains both corners of the AABB.
ContainsBox(c, aabb) == contains(c, aabb.min) /\ contains(c, aabb.max)

\* C4: for a and b with min <= max, every AABB that contains the corners of
\* a and of b contains the corners of a.join(b); every AABB that contains a
\* and a point p contains a.grow(p).
C4_JoinGrowMinimal ==
    /\ (ret.op = "join" /\ WellFormed(self) /\ WellFormed(other)) =>
          \A c \in SampleBoxes :
              (ContainsBox(c, self) /\ ContainsBox(c, other)) => ContainsBox(c, ret.val)
    /\ (ret.op = "grow" /\ WellFormed(self)) =>
          \A c \in SampleBoxes :
              (ContainsBox(c, self) /\ contains(c, p)) => ContainsBox(c, ret.val)

\* Two different well-formed AABBs have been joined into a third, and some
\* AABB other than the join contains them both.
C4_Witness ==
    /\ ret.op = "join"
    /\ WellFormed(self) /\ WellFormed(other)
    /\ ret.val # self /\ ret.val # other
    /\ \E c \in SampleBoxes :
          c # ret.val /\ ContainsBox(c, self) /\ ContainsBox(c, other)

\* == of f32: false as soon as an operand is NaN.
FEq(x, y) == ~IsNaN(x) /\ ~IsNaN(y) /\ x = y

\* == of Point3<f32>: == on each coordinate.
PointEq(q, r) == FEq(q[1], r[1]) /\ FEq(q[2], r[2]) /\ FEq(q[3], r[3])

\* Two AABBs compared by their min and max corners.
CornersEq(a, b) == PointEq(a.min, b.min) /\ PointEq(a.max, b.max)

\* a.join(b) == b.join(a), a.join(b).join(c) == a.join(b.join(c)) for every
\* c of the sample, and a.join(a) == a, where ab is a.join(b).
JoinLaws(a, b, ab, sample) ==
    /\ CornersEq(ab, join(b, a))
    /\ \A c \in sample : CornersEq(join(ab, c), join(a, join(b, c)))
    /\ a = b => CornersEq(ab, a)

\* C13 as stated: for all AABBs a, b, c (empty() included), a.join(b) equals
\* b.join(a), a.join(b).join(c) equals a.join(b.join(c)) and a.join(a)
\* equals a, comparing min and max corners.
C13_AsStated ==
    ret.op = "join" => JoinLaws(self, other, ret.val, SampleBoxes)

\* C13, amended: for all AABBs a, b, c none of whose coordinates is NaN
\* (empty() and boxes with min > max included), a.join(b) equals b.join(a),
\* a.join(b).join(c) equals a.join(b.join(c)) and a.join(a) equals a,
\* comparing min and max corners.
C13_JoinOrderIndependent ==
    (ret.op = "join" /\ ~BoxHasNaN(self) /\ ~BoxHasNaN(other)) =>
        JoinLaws(self, other, ret.val, {c \in SampleBoxes : ~BoxHasNaN(c)})

\* Two different NaN-free AABBs, neither of them empty(), have been joined
\* into a third, and joining some NaN-free c to it changes it again.
C13_Witness ==
    /\ ret.op = "join"
    /\ ~BoxHasNaN(self) /\ ~BoxHasNaN(other)
    /\ self # empty /\ other # empty
    /\ ret.val # self /\ ret.val # other
    /\ \E c \in SampleBoxes :
          /\ ~BoxHasNaN(c)
          /\ join(ret.val, c) # ret.val
          /\ join(other, c) # c /\ join(other, c) # other

---------------------------------------------------------------------------
(* largest_axis called on AABBs of every shape: extents that differ, that  *)
(* tie in pairs or all three, that overflow, and that are NaN.             *)

AxisLows ==
    { Point3(0, 0, 0),
      Point3(-MaxFinite, 0, One),
      Point3(PInf, PInf, PInf) }
AxisCoords == {0, One, 2 * One, MaxFinite, PInf, NaN}
AxisBoxes ==
    {with_bounds(lo, Point3(x, y, z)) :
        lo \in AxisLows, x \in AxisCoords, y \in AxisCoords, z \in AxisCoords}
        \cup {empty}

InitAxis ==
    /\ self \in AxisBoxes
    /\ other = empty
    /\ pts = <<>>
    /\ opts = <<>>
    /\ p = Origin
    /\ ray = NoRay
    /\ ret = Call("with_bounds", self)

\* self.size()
CallSize ==
    /\ ret' = Call("size", size(self))
    /\ UNCHANGED <<self, other, pts, opts, p, ray>>

\* self.largest_axis()
CallLargestAxis ==
    /\ ret' = Call("largest_axis", largest_axis(self))
    /\ UNCHANGED <<self, other, pts, opts, p, ray>>

NextAxis ==
    \/ CallSize
    \/ CallLargestAxis

SpecAxis == InitAxis /\ [][NextAxis]_vars

\* The axes whose extent is >= the extent of each of the other two.
MaximalAxes(aabb) ==
    {i \in Axes : \A j \in Axes \ {i} : FGe(size(aabb)[i], size(aabb)[j])}

\* C5 as stated: for every AABB, the extent on the axis largest_axis returns
\* is >= the extent on each of the other two axes.
C5_AsStated ==
    ret.op = "largest_axis" => ret.val \in MaximalAxes(self)

\* C5, amended: for every AABB whose size() has no NaN component, the extent
\* on the axis largest_axis returns is >= the extent on each other axis.
C5_LargestAxisIsMaximal ==
    (ret.op = "largest_axis" /\ ~HasNaN(size(self))) => ret.val \in MaximalAxes(self)

\* largest_axis has returned the one maximal axis of an AABB with three
\* different finite extents, the largest of them not on z.
C5_Witness ==
    /\ ret.op = "largest_axis"
    /\ PointIsFinite(size(self))
    /\ Cardinality({size(self)[i] : i \in Axes}) = 3
    /\ MaximalAxes(self) = {ret.val}
    /\ ret.val # AxisZ

\* C6 as stated: among tied maximal axes, largest_axis returns X if X is one
\* of them, otherwise Y.
C6_AsStated ==
    (ret.op = "largest_axis" /\ Cardinality(MaximalAxes(self)) >= 2) =>
        ret.val = (IF AxisX \in MaximalAxes(self) THEN AxisX
                   ELSE IF AxisY \in MaximalAxes(self) THEN AxisY ELSE AxisZ)

\* C6, amended: among two or more tied maximal axes, largest_axis returns Z
\* if Z is one of them, otherwise Y (the order is Z, then Y, then X).
C6_TieBreakZThenY ==
    (ret.op = "largest_axis" /\ Cardinality(MaximalAxes(self)) >= 2) =>
        ret.val = (IF AxisZ \in MaximalAxes(self) THEN AxisZ
                   ELSE IF AxisY \in MaximalAxes(self) THEN AxisY ELSE AxisX)

\* largest_axis has returned Y for an AABB whose x and y extents tie for the
\* maximum, above z.
C6_Witness ==
    /\ ret.op = "largest_axis"
    /\ MaximalAxes(self) = {AxisX, AxisY}
    /\ ret.val = AxisY

---------------------------------------------------------------------------
(* Ray: the origin and direction of a ray, with the reciprocal of the      *)
(* direction and the sign of each of its components, as does_intersect     *)
(* reads them (ray.origin, ray.inv_direction(), ray.sign()).  The Ray type *)
(* is not part of aabb.rs; it is modelled from its description as a ray    *)
(* primitive with precomputed inv_direction and per-axis sign.             *)

Vector3(x, y, z) == <<x, y, z>>

Ray(origin, direction) == [origin |-> origin, direction |-> direction]

\* 1.0 / direction, per component.
inv_direction(r) ==
    Vector3(FDiv(One, r.direction[1]),
            FDiv(One, r.direction[2]),
            FDiv(One, r.direction[3]))

\* (direction < 0.0) as usize, per component.
sign(r) ==
    Vector3(IF FLt(r.direction[1], 0) THEN 1 ELSE 0,
            IF FLt(r.direction[2], 0) THEN 1 ELSE 0,
            IF FLt(r.direction[3], 0) THEN 1 ELSE 0)

---------------------------------------------------------------------------
(* Intersectable for AABB *)

\* (self[ray.sign().i].i - ray.origin.i) * ray.inv_direction().i
NearSlab(aabb, r, i) ==
    FMul(FSub(index(aabb, sign(r)[i])[i], r.origin[i]), inv_direction(r)[i])

\* (self[1 - ray.sign().i].i - ray.origin.i) * ray.inv_direction().i
FarSlab(aabb, r, i) ==
    FMul(FSub(index(aabb, 1 - sign(r)[i])[i], r.origin[i]), inv_direction(r)[i])

\* does_intersect without its last line: true as soon as the slabs overlap.
does_intersect_any_t(aabb, r) ==
    LET x_min == NearSlab(aabb, r, 1)
        x_max == FarSlab(aabb, r, 1)
        y_min == NearSlab(aabb, r, 2)
        y_max == FarSlab(aabb, r, 2)
    IN  IF FGt(x_min, y_max) \/ FGt(y_min, x_max) THEN FALSE
        ELSE LET ray_min == IF FGt(y_min, x_min) THEN y_min ELSE x_min
                 ray_max == IF FLt(y_max, x_max) THEN y_max ELSE x_max
                 z_min == NearSlab(aabb, r, 3)
                 z_max == FarSlab(aabb, r, 3)
             IN  ~(FGt(ray_min, z_max) \/ FGt(z_min, ray_max))

does_intersect(aabb, r) ==
    LET x_min == NearSlab(aabb, r, 1)
        x_max == FarSlab(aabb, r, 1)
        y_min == NearSlab(aabb, r, 2)
        y_max == FarSlab(aabb, r, 2)
    IN  IF FGt(x_min, y_max) \/ FGt(y_min, x_max) THEN FALSE
        ELSE LET ray_min == IF FGt(y_min, x_min) THEN y_min ELSE x_min
                 ray_max == IF FLt(y_max, x_max) THEN y_max ELSE x_max
                 z_min == NearSlab(aabb, r, 3)
                 z_max == FarSlab(aabb, r, 3)
             IN  IF FGt(ray_min, z_max) \/ FGt(z_min, ray_max) THEN FALSE
                 ELSE LET ray_max_z == IF FLt(z_max, ray_max) THEN z_max ELSE ray_max
                      IN  FGt(ray_max_z, 0)

\* RaycastResult: Miss, or a hit at a ray parameter.
Miss == [kind |-> "Miss"]
hit(t) == [kind |-> "Hit", distance |-> t]

\* (self.min.i - ray.origin.i) * ray.inv_direction().i
HitMin(aabb, r, i) == FMul(FSub(aabb.min[i], r.origin[i]), inv_direction(r)[i])

\* (self.max.i - ray.origin.i) * ray.inv_direction().i
HitMax(aabb, r, i) == FMul(FSub(aabb.max[i], r.origin[i]), inv_direction(r)[i])

intersection(aabb, r) ==
    LET x_entry == f32_min(HitMin(aabb, r, 1), HitMax(aabb, r, 1))
        y_entry == f32_min(HitMin(aabb, r, 2), HitMax(aabb, r, 2))
        z_entry == f32_min(HitMin(aabb, r, 3), HitMax(aabb, r, 3))
        x_exit == f32_max(HitMin(aabb, r, 1), HitMax(aabb, r, 1))
        y_exit == f32_max(HitMin(aabb, r, 2), HitMax(aabb, r, 2))
        z_exit == f32_max(HitMin(aabb, r, 3), HitMax(aabb, r, 3))
        latest_entry == f32_max(f32_max(x_entry, y_entry), z_entry)
        earliest_exit == f32_min(f32_min(x_exit, y_exit), z_exit)
    IN  IF FLt(latest_entry, earliest_exit) /\ FGt(earliest_exit, 0)
        THEN hit(latest_entry)
        ELSE Miss

---------------------------------------------------------------------------
(* does_intersect and intersection called with rays of every direction on  *)
(* boxes in front of, around and behind the origin of the ray.             *)

Quarter == One \div 4

RayBoxes ==
    { with_bounds(Point3(-One, -One, -One), Point3(One, One, One)),
      with_bounds(Point3(0, 0, 0), Point3(One, One, One)),
      with_bounds(Point3(One, One, One), Point3(One, One, One)),
      with_bounds(Point3(-One, -One, 0), Point3(One, One, 0)),
      with_bounds(Point3(5 * One, 0, 0), Point3(20 * One, Quarter, Quarter)),
      with_bounds(Point3(-2 * One, Quarter, -One), Point3(-One, 2 * One, One)),
      with_bounds(Point3(One, One, One), Point3(-One, -One, -One)),
      with_bounds(Point3(NaN, 0, 0), Point3(One, One, PInf)),
      empty }

RayOrigins ==
    { Point3(0, 0, 0),
      Point3(2 * One, 2 * One, 2 * One),
      Point3(-2 * One, 0, 0),
      Point3(One, One, -MaxFinite),
      Point3(0, Quarter, NaN) }

\* Direction components: negative, the smallest subnormal (its reciprocal
\* overflows), 1.0, a large one (its reciprocal is subnormal), zero and NaN.
DirCoords == {-One, 1, One, 20 * One, 0, NaN}
RayDirections ==
    {Vector3(x, y, z) : x \in DirCoords, y \in DirCoords, z \in DirCoords}

InitRay ==
    /\ self \in RayBoxes
    /\ ray \in {Ray(o, d) : o \in RayOrigins, d \in RayDirections}
    /\ other = empty
    /\ pts = <<>>
    /\ opts = <<>>
    /\ p = Origin
    /\ ret = Call("with_bounds", self)

\* self.does_intersect(&ray)
CallDoesIntersect ==
    /\ ret' = Call("does_intersect", does_intersect(self, ray))
    /\ UNCHANGED <<self, other, pts, opts, p, ray>>

\* self.intersection(&ray)
CallIntersection ==
    /\ ret' = Call("intersection", intersection(self, ray))
    /\ UNCHANGED <<self, other, pts, opts, p, ray>>

NextRay ==
    \/ CallDoesIntersect
    \/ CallIntersection

SpecRay == InitRay /\ [][NextRay]_vars

\* Every component of the direction is nonzero.
DirectionNonZero(r) ==
    r.direction[1] # 0 /\ r.direction[2] # 0 /\ r.direction[3] # 0

\* t_exit: the minimum over the three axes of the far-slab ray parameter.
t_exit(aabb, r) ==
    f32_min(f32_min(FarSlab(aabb, r, 1), FarSlab(aabb, r, 2)), FarSlab(aabb, r, 3))

\* The three per-axis slab intervals overlap.
SlabsOverlap(aabb, r) ==
    \A i \in Axes : \A j \in Axes : FLe(NearSlab(aabb, r, i), FarSlab(aabb, r, j))

\* C7: for an AABB with min <= max and a ray of nonzero direction
\* components, does_intersect returns false when t_exit <= 0.
C7_RejectsBoxesBehind ==
    (/\ ret.op = "does_intersect"
     /\ WellFormed(self)
     /\ DirectionNonZero(ray)
     /\ FLe(t_exit(self, ray), 0))
    => ret.val = FALSE

\* does_intersect has returned false for a box behind the origin of the ray
\* whose three slab intervals overlap.
C7_Witness ==
    /\ ret.op = "does_intersect"
    /\ WellFormed(self)
    /\ DirectionNonZero(ray)
    /\ SlabsOverlap(self, ray)
    /\ FLt(t_exit(self, ray), 0)
    /\ ret.val = FALSE

\* All the coordinates of the AABB and of the ray are finite, the
\* reciprocal of the direction included.
RayCaseIsFinite(aabb, r) ==
    /\ PointIsFinite(aabb.min) /\ PointIsFinite(aabb.max)
    /\ PointIsFinite(r.origin) /\ PointIsFinite(r.direction)
    /\ PointIsFinite(inv_direction(r))

\* In exact arithmetic: some t > 0 puts origin + t * direction in the AABB.
\* On axis i the ray is inside the slab for lo[i]/den[i] <= t <= hi[i]/den[i].
HitsExactly(aabb, r) ==
    LET den == [i \in Axes |-> Abs(r.direction[i])]
        lo == [i \in Axes |-> IF r.direction[i] > 0
                               THEN aabb.min[i] - r.origin[i]
                               ELSE r.origin[i] - aabb.max[i]]
        hi == [i \in Axes |-> IF r.direction[i] > 0
                               THEN aabb.max[i] - r.origin[i]
                               ELSE r.origin[i] - aabb.min[i]]
    IN  /\ \A i \in Axes : \A j \in Axes : lo[i] * den[j] <= hi[j] * den[i]
        /\ \A j \in Axes : hi[j] > 0

\* C8 as stated, on finite coordinates: for an AABB with min <= max and a
\* ray of nonzero direction components, if some t > 0 puts
\* origin + t * direction in the AABB, does_intersect returns true.
C8_NoFalseNegatives ==
    (/\ ret.op = "does_intersect"
     /\ WellFormed(self)
     /\ DirectionNonZero(ray)
     /\ RayCaseIsFinite(self, ray)
     /\ HitsExactly(self, ray))
    => ret.val = TRUE

\* C12 as stated, on finite coordinates: for an AABB with min <= max and a
\* ray of nonzero direction components, does_intersect returns true exactly
\* when intersection returns a hit and not Miss.
C12_RayTestsAgree ==
    (/\ ret.op = "intersection"
     /\ WellFormed(self)
     /\ DirectionNonZero(ray)
     /\ RayCaseIsFinite(self, ray))
    => (does_intersect(self, ray) <=> ret.val # Miss)

---------------------------------------------------------------------------
(* Sequences of grow and join: two AABBs start as empty(); each is grown   *)
(* point by point and may at any time be replaced by its join with the     *)
(* other, which was itself made by grow and join steps.  pts and opts      *)
(* record every point that went into self and into other, through a grow   *)
(* of their own or through a joined AABB.                                  *)

\* Longest record of points behind one AABB.
MaxOps == 3

\* An ordinary point, one at the end of the finite range, one with an
\* infinite coordinate and one with a NaN coordinate.
SeqPoints ==
    { Point3(One, -One, 2 * One),
      Point3(-MaxFinite, 0, One),
      Point3(PInf, 0, -One),
      Point3(NaN, One, 0) }

\* aabb = aabb.grow(&point)
SeqGrow(q) ==
    /\ Len(pts) < MaxOps
    /\ self' = grow(self, q)
    /\ pts' = Append(pts, q)
    /\ ret' = Call("grow", self')
    /\ UNCHANGED <<other, opts, p, ray>>

\* box = box.grow(&point)
SeqGrowOther(q) ==
    /\ Len(opts) < MaxOps
    /\ other' = grow(other, q)
    /\ opts' = Append(opts, q)
    /\ ret' = Call("grow_other", other')
    /\ UNCHANGED <<self, pts, p, ray>>

\* aabb = aabb.join(&box)
SeqJoin ==
    /\ Len(pts) + Len(opts) <= MaxOps
    /\ self' = join(self, other)
    /\ pts' = pts \o opts
    /\ ret' = Call("join", self')
    /\ UNCHANGED <<other, opts, p, ray>>

\* box = box.join(&aabb)
SeqJoinOther ==
    /\ Len(pts) + Len(opts) <= MaxOps
    /\ other' = join(other, self)
    /\ opts' = opts \o pts
    /\ ret' = Call("join_other", other')
    /\ UNCHANGED <<self, pts, p, ray>>

NextSeq ==
    \/ \E q \in SeqPoints : SeqGrow(q)
    \/ \E q \in SeqPoints : SeqGrowOther(q)
    \/ SeqJoin
    \/ SeqJoinOther

SpecSeq == Init /\ [][NextSeq]_vars

\* The AABB is exactly the empty sentinel or has min <= max on every axis,
\* and contains every point of the record.
StaysWellFormed(aabb, record) ==
    /\ aabb = empty \/ WellFormed(aabb)
    /\ \A q \in Range(record) : contains(aabb, q)

\* C11 as stated: after any sequence of grow and join steps from empty(),
\* the AABB is the empty sentinel or has min <= max on every axis, and it
\* contains every point passed to an earlier grow step.
C11_AsStated ==
    /\ StaysWellFormed(self, pts)
    /\ StaysWellFormed(other, opts)

\* C11, amended: after any sequence of grow and join steps from empty() in
\* which no point passed to grow has a NaN coordinate, the AABB is the empty
\* sentinel or has min <= max on every axis, and it contains every point
\* passed to an earlier grow step.
C11_StaysWellFormed ==
    /\ (\A q \in Range(pts) : ~HasNaN(q)) => StaysWellFormed(self, pts)
    /\ (\A q \in Range(opts) : ~HasNaN(q)) => StaysWellFormed(other, opts)

\* An AABB behind which there is one point has just been joined with a box
\* behind which there are two different points, all of them NaN-free, and
\* the join is well-formed and larger than the AABB of any one point.
C11_Witness ==
    /\ ret.op = "join"
    /\ Len(opts) = 2
    /\ opts[1] # opts[2]
    /\ pts = <<opts[2]>> \o opts
    /\ \A q \in Range(pts) : ~HasNaN(q)
    /\ ret.val = self
    /\ self # empty /\ WellFormed(self)
    /\ self.min # self.max

=============================================================================
